---- MODULE Spec2Model ----
(***************************************************************************)
(* Model of libninja's `generate` command                                  *)
(* (libninja/src/command/generate.rs): the Generate builder, Generate::run *)
(* and read_spec.                                                          *)
(*                                                                         *)
(* Strings that the code inspects (paths, error messages) are sequences of *)
(* tokens.  The tokens "/", "." and "\"" stand for those characters, "<FF>"*)
(* for one byte that is not valid UTF-8, and every other token for a run   *)
(* of letters holding none of them; a string is the concatenation of its   *)
(* tokens.                                                                 *)
(***************************************************************************)
EXTENDS Integers, Sequences, FiniteSets, TLC

VARIABLES
    language,        \* Generate.language
    examples,        \* Generate.examples
    output_dir,      \* Generate.output_dir : Option<String>
    config,          \* Generate.config : Vec<Flag>
    derive,          \* Generate.derive : Vec<String>
    name,            \* Generate.name
    spec_filepath,   \* Generate.spec_filepath, or the path handed to read_spec
    fs,              \* the file the path names: whether it opens, and its bytes
    pc,              \* position: building, inside run, or finished
    trace,           \* stages executed so far, in order
    spec,            \* run's local `spec` after read_spec (OpenAPI)
    dest,            \* run's local `output_dir` (PathBuf)
    hir,             \* run's local `spec` after extract_spec
    cfg,             \* run's local `config` (hir::Config)
    extractCalls,    \* arguments of the calls made to extract_spec
    backendCalls,    \* calls made to backends: language, spec, config
    backendResult,   \* what the backend returned
    result,          \* what run / read_spec returned (or that it panicked)
    examples_given,  \* history: with_examples has been called
    calls            \* history: the builder calls made, in order

self == <<language, examples, output_dir, config, derive, name, spec_filepath>>
locals == <<trace, spec, dest, hir, cfg, extractCalls, backendCalls,
            backendResult, result>>
vars == <<language, examples, output_dir, config, derive, name, spec_filepath,
          fs, pc, trace, spec, dest, hir, cfg, extractCalls, backendCalls,
          backendResult, result, examples_given, calls>>

\* ------------------------------------------------------------------ bounds
MaxPathLen == 4
MaxList == 2
MaxCalls == 3

\* ------------------------------------------------------------ Option, Result
None == [some |-> FALSE]
Some(x) == [some |-> TRUE, val |-> x]

Ok(v) == [kind |-> "Ok", val |-> v]
Err(e) == [kind |-> "Err", err |-> e]
Panic(m) == [kind |-> "Panic", msg |-> m]
Pending == [kind |-> "Pending"]

RECURSIVE SeqsUpTo(_, _)
SeqsUpTo(S, n) ==
    IF n = 0 THEN {<<>>}
    ELSE LET shorter == SeqsUpTo(S, n - 1)
         IN shorter \cup {Append(s, x) : s \in shorter, x \in S}

\* ------------------------------------------------------------------- paths
Alphabet == {"/", ".", "\"", "<FF>", "spec", "yaml", "yml", "json", "txt"}

RECURSIVE Split(_)
Split(p) ==
    IF p = <<>> THEN << <<>> >>
    ELSE LET rest == Split(Tail(p))
         IN IF Head(p) = "/" THEN << <<>> >> \o rest
            ELSE << <<Head(p)>> \o Head(rest) >> \o Tail(rest)

\* Path::components keeps the normal components: empty ones (repeated or
\* trailing separators) and "." are dropped.
Components(p) == SelectSeq(Split(p), LAMBDA c : c # <<>> /\ c # <<".">>)

file_name(p) ==
    LET cs == Components(p)
    IN IF cs = <<>> THEN None
       ELSE IF cs[Len(cs)] = <<".", ".">> THEN None
       ELSE Some(cs[Len(cs)])

\* std's rsplit_file_at_dot followed by `before.and(after)`.
extension(p) ==
    LET f == file_name(p)
    IN IF ~f.some THEN None
       ELSE LET dots == {i \in 1..Len(f.val) : f.val[i] = "."}
            IN IF dots = {} THEN None
               ELSE LET i == CHOOSE d \in dots : \A e \in dots : e <= d
                    IN IF i = 1 THEN None
                       ELSE Some(SubSeq(f.val, i + 1, Len(f.val)))

IsUtf8(s) == \A i \in 1..Len(s) : s[i] # "<FF>"

\* `{:?}` of a Path: the text in double quotes, with `"`, `\` and invalid bytes
\* escaped.
RECURSIVE escape_debug(_)
escape_debug(s) ==
    IF s = <<>> THEN <<>>
    ELSE (CASE Head(s) = "\"" -> <<"\\", "\"">>
            [] Head(s) = "\\" -> <<"\\", "\\">>
            [] Head(s) = "<FF>" -> <<"\\", "xFF">>
            [] OTHER -> <<Head(s)>>) \o escape_debug(Tail(s))

path_debug(p) == <<"\"">> \o escape_debug(p) \o <<"\"">>

not_found_message(p) == path_debug(p) \o <<": OpenAPI file not found", ".">>

Contains(msg, s) ==
    \E i \in 0..(Len(msg) - Len(s)) : SubSeq(msg, i + 1, i + Len(s)) = s

\* ------------------------------------------------------------------- files
\* A versioned document: the schema version it was authored in, and its
\* content.
VersionedDocs == {[ver |-> "V2", api |-> "A"],
                  [ver |-> "V3", api |-> "A"],
                  [ver |-> "V3", api |-> "B"]}

\* The bytes of a file, by what the two deserializers make of them: text that
\* is neither, YAML that is not JSON, or JSON (which is YAML too).
Contents == {[text |-> "garbage"]}
            \cup {[text |-> "yaml", doc |-> d] : d \in VersionedDocs}
            \cup {[text |-> "json", doc |-> d] : d \in VersionedDocs}

Files == {[opens |-> FALSE]} \cup {[opens |-> TRUE, bytes |-> c] : c \in Contents}

FilesAt(p) == IF p = <<>> THEN {[opens |-> FALSE]} ELSE Files

from_yaml(c) == IF c.text = "garbage" THEN Err("serde_yaml::Error") ELSE Ok(c.doc)

from_json(c) == IF c.text = "json" THEN Ok(c.doc) ELSE Err("serde_json::Error")

\* VersionedOpenAPI::upgrade: total, the canonical document of the content.
upgrade(d) == [openapi |-> d.api]

\* ---------------------------------------------------------------- read_spec
\* Mutant: a document that fails to deserialize is replaced by a default one.
Deserialized_or_default(r) ==
    [out |-> Ok(upgrade(IF r.kind = "Ok" THEN r.val ELSE [ver |-> "V3", api |-> "A"])),
     stages |-> <<"open", "extension", "deserialize", "upgrade">>]

\* The outcome of read_spec with the stages it went through.
Deserialized(r) ==
    IF r.kind = "Ok"
    THEN [out |-> Ok(upgrade(r.val)),
          stages |-> <<"open", "extension", "deserialize", "upgrade">>]
    ELSE [out |-> r, stages |-> <<"open", "extension", "deserialize">>]

\* Mutant: an unrecognized extension is read as YAML.
read_spec_lenient(path, file) ==
    IF ~file.opens
    THEN [out |-> Err(not_found_message(path)), stages |-> <<"open">>]
    ELSE LET e == extension(path)
         IN IF e.some /\ e.val = <<"json">>
            THEN Deserialized(from_json(file.bytes))
            ELSE Deserialized(from_yaml(file.bytes))

\* Mutant: a missing extension is read as JSON.
read_spec_default_json(path, file) ==
    IF ~file.opens
    THEN [out |-> Err(not_found_message(path)), stages |-> <<"open">>]
    ELSE LET e == extension(path)
         IN IF e.some /\ ~IsUtf8(e.val)
            THEN [out |-> Panic("Extension isn't utf8"),
                  stages |-> <<"open", "extension">>]
            ELSE LET ext == IF e.some THEN e.val ELSE <<"json">>
                 IN CASE ext \in {<<"yaml">>, <<"yml">>} -> Deserialized(from_yaml(file.bytes))
                      [] ext = <<"json">> -> Deserialized(from_json(file.bytes))
                      [] OTHER -> [out |-> Panic("Unknown file extension"),
                                   stages |-> <<"open", "extension">>]

read_spec(path, file) ==
    IF ~file.opens
    THEN [out |-> Err(not_found_message(path)), stages |-> <<"open">>]
    ELSE LET e == extension(path)
         IN IF e.some /\ ~IsUtf8(e.val)
            THEN [out |-> Panic("Extension isn't utf8"),
                  stages |-> <<"open", "extension">>]
            ELSE LET ext == IF e.some THEN e.val ELSE <<"yaml">>
                 IN CASE ext \in {<<"yaml">>, <<"yml">>} -> Deserialized(from_yaml(file.bytes))
                      [] ext = <<"json">> -> Deserialized(from_json(file.bytes))
                      [] OTHER -> [out |-> Panic("Unknown file extension"),
                                   stages |-> <<"open", "extension">>]

\* ------------------------------------------------------------ input domains
Languages == {"Rust"}
Flags == {"Ormlite", "Fake"}
DeriveNames == {"Clone", "Debug"}
DeriveArgs == {<<>>, <<"Debug", "Clone">>, <<"Clone", "Clone">>}
ConfigArgs == {<<>>, <<"Ormlite">>, <<"Fake", "Ormlite">>}
Names == {"my_api", "stripe"}
OutputDirs == {"out"}
Paths == {<<"spec", ".", "yaml">>, <<"spec", ".", "yml">>, <<"spec">>,
          <<"spec", ".", "json">>, <<"spec", ".", "txt">>,
          <<"spec", "\"", ".", "yaml">>}

\* convert_case's Case::Pascal on the names used here.
to_pascal(n) ==
    CASE n = "my_api" -> "MyApi"
      [] n = "stripe" -> "Stripe"
      [] OTHER -> n

\* extract_spec: succeeds with the representation of the document, or fails.
extract_spec(doc) == {Ok([hir |-> doc.openapi]), Err("ExtractionError")}

\* codegen_rust::generate_rust_library: succeeds or fails with its own error.
generate_rust_library(s, c) == {Ok("()"), Err("io::Error"), Err("fmt::Error")}

\* ----------------------------------------------------------------- builder
\* Generate::new()
new ==
    /\ language = "Rust" /\ examples = TRUE /\ output_dir = None
    /\ config = <<>> /\ derive = <<>> /\ name = "" /\ spec_filepath = <<>>

NotStarted ==
    /\ fs = None /\ trace = <<>> /\ spec = None /\ dest = None /\ hir = None
    /\ cfg = None /\ extractCalls = <<>> /\ backendCalls = <<>>
    /\ backendResult = Pending /\ result = Pending

with_language(l) ==
    /\ pc = "build"
    /\ language' = l
    /\ UNCHANGED <<examples, output_dir, config, derive, name, spec_filepath>>

with_examples(e) ==
    /\ pc = "build"
    /\ examples' = e
    /\ UNCHANGED <<language, output_dir, config, derive, name, spec_filepath>>

with_output_dir(o) ==
    /\ pc = "build"
    /\ output_dir' = Some(o)
    /\ UNCHANGED <<language, examples, config, derive, name, spec_filepath>>

with_name(n) ==
    /\ pc = "build"
    /\ name' = n
    /\ UNCHANGED <<language, examples, output_dir, config, derive, spec_filepath>>

with_spec_filepath(p) ==
    /\ pc = "build"
    /\ spec_filepath' = p
    /\ UNCHANGED <<language, examples, output_dir, config, derive, name>>

add_derive(d) ==
    /\ pc = "build"
    /\ Len(derive) < MaxList
    /\ derive' = Append(derive, d)
    /\ UNCHANGED <<language, examples, output_dir, config, name, spec_filepath>>

\* Mutant: with_derive extends the list instead of replacing it.
with_derive_extends(ds) ==
    /\ pc = "build"
    /\ derive' = derive \o ds
    /\ UNCHANGED <<language, examples, output_dir, config, name, spec_filepath>>

with_derive(ds) ==
    /\ pc = "build"
    /\ derive' = ds
    /\ UNCHANGED <<language, examples, output_dir, config, name, spec_filepath>>

add_config(f) ==
    /\ pc = "build"
    /\ Len(config) < MaxList
    /\ config' = Append(config, f)
    /\ UNCHANGED <<language, examples, output_dir, derive, name, spec_filepath>>

with_config(fl) ==
    /\ pc = "build"
    /\ config' = fl
    /\ UNCHANGED <<language, examples, output_dir, derive, name, spec_filepath>>

\* -------------------------------------------------------------- Generate::run
\* let spec = read_spec(&PathBuf::from(self.spec_filepath))?;
Run_read_spec ==
    /\ pc = "build"
    /\ \E f \in FilesAt(spec_filepath) :
         /\ fs' = f
         /\ LET r == read_spec(spec_filepath, f)
            IN /\ trace' = r.stages
               /\ IF r.out.kind = "Ok"
                  THEN /\ spec' = Some(r.out.val)
                       /\ pc' = "output_dir"
                       /\ UNCHANGED result
                  ELSE /\ result' = r.out
                       /\ pc' = "done"
                       /\ UNCHANGED spec
    /\ UNCHANGED <<self, dest, hir, cfg, extractCalls, backendCalls,
                   backendResult, examples_given, calls>>

\* Mutant: the caller's output directory is ignored.
Run_output_dir_ignored ==
    /\ pc = "output_dir"
    /\ dest' = Some(".")
    /\ trace' = Append(trace, "output_dir")
    /\ pc' = "extract"
    /\ UNCHANGED <<self, fs, spec, hir, cfg, extractCalls, backendCalls,
                   backendResult, result, examples_given, calls>>

\* let output_dir = PathBuf::from(self.output_dir.unwrap_or_else(|| "."));
Run_output_dir ==
    /\ pc = "output_dir"
    /\ dest' = Some(IF output_dir.some THEN output_dir.val ELSE ".")
    /\ trace' = Append(trace, "output_dir")
    /\ pc' = "extract"
    /\ UNCHANGED <<self, fs, spec, hir, cfg, extractCalls, backendCalls,
                   backendResult, result, examples_given, calls>>

\* Mutant: a failed extraction is tried again, and its error is dropped.
Run_extract_spec_retry ==
    /\ pc = "extract"
    /\ extractCalls' = Append(extractCalls, spec.val)
    /\ trace' = Append(trace, "extract")
    /\ \E r \in extract_spec(spec.val) :
         IF r.kind = "Ok"
         THEN /\ hir' = Some(r.val)
              /\ pc' = "config"
         ELSE /\ Len(extractCalls) < 2
              /\ pc' = "extract"
              /\ UNCHANGED hir
    /\ UNCHANGED <<self, fs, spec, dest, cfg, backendCalls, backendResult,
                   result, examples_given, calls>>

\* let spec = extract_spec(&spec)?;
Run_extract_spec ==
    /\ pc = "extract"
    /\ extractCalls' = Append(extractCalls, spec.val)
    /\ trace' = Append(trace, "extract")
    /\ \E r \in extract_spec(spec.val) :
         IF r.kind = "Ok"
         THEN /\ hir' = Some(r.val)
              /\ pc' = "config"
              /\ UNCHANGED result
         ELSE /\ result' = r
              /\ pc' = "done"
              /\ UNCHANGED hir
    /\ UNCHANGED <<self, fs, spec, dest, cfg, backendCalls, backendResult,
                   examples_given, calls>>

RECURSIVE Dedup(_)
Dedup(s) ==
    IF s = <<>> THEN <<>>
    ELSE LET init == Dedup(SubSeq(s, 1, Len(s) - 1))
             last == s[Len(s)]
         IN IF \E i \in 1..Len(init) : init[i] = last THEN init
            ELSE Append(init, last)

\* Mutant: repeated derive names are dropped.
Run_config_dedup ==
    /\ pc = "config"
    /\ cfg' = Some([name |-> to_pascal(name),
                    dest |-> dest.val,
                    derives |-> Dedup(derive),
                    build_examples |-> examples,
                    ormlite |-> FALSE])
    /\ trace' = Append(trace, "config")
    /\ pc' = "dispatch"
    /\ UNCHANGED <<self, fs, spec, dest, hir, extractCalls, backendCalls,
                   backendResult, result, examples_given, calls>>

\* let config = Config { .. };
Run_config ==
    /\ pc = "config"
    /\ cfg' = Some([name |-> to_pascal(name),
                    dest |-> dest.val,
                    derives |-> derive,
                    build_examples |-> examples,
                    ormlite |-> FALSE])
    /\ trace' = Append(trace, "config")
    /\ pc' = "dispatch"
    /\ UNCHANGED <<self, fs, spec, dest, hir, extractCalls, backendCalls,
                   backendResult, result, examples_given, calls>>

\* Mutant: the backend's result is discarded and success returned.
Run_dispatch_swallow ==
    /\ pc = "dispatch"
    /\ language = "Rust"
    /\ backendCalls' = Append(backendCalls,
                              [backend |-> "Rust", spec |-> hir.val, config |-> cfg.val])
    /\ trace' = Append(trace, "dispatch")
    /\ \E r \in generate_rust_library(hir.val, cfg.val) :
         /\ backendResult' = r
         /\ result' = Ok("()")
    /\ pc' = "done"
    /\ UNCHANGED <<self, fs, spec, dest, hir, cfg, extractCalls,
                   examples_given, calls>>

\* match self.language { Language::Rust => generate_rust_library(spec, config) }
Run_dispatch ==
    /\ pc = "dispatch"
    /\ language = "Rust"
    /\ backendCalls' = Append(backendCalls,
                              [backend |-> "Rust", spec |-> hir.val, config |-> cfg.val])
    /\ trace' = Append(trace, "dispatch")
    /\ \E r \in generate_rust_library(hir.val, cfg.val) :
         /\ backendResult' = r
         /\ result' = r
    /\ pc' = "done"
    /\ UNCHANGED <<self, fs, spec, dest, hir, cfg, extractCalls,
                   examples_given, calls>>

Run == Run_read_spec \/ Run_output_dir \/ Run_extract_spec \/ Run_config
       \/ Run_dispatch

\* --------------------------------------------------- builder, then run
Init == new /\ NotStarted /\ pc = "build" /\ examples_given = FALSE /\ calls = <<>>

Quiet == UNCHANGED <<fs, pc, locals, examples_given, calls>>

Next ==
    \/ \E l \in Languages : with_language(l) /\ Quiet
    \/ \E e \in BOOLEAN : with_examples(e) /\ examples_given' = TRUE
                          /\ UNCHANGED <<fs, pc, locals, calls>>
    \/ \E o \in OutputDirs : with_output_dir(o) /\ Quiet
    \/ \E n \in Names : with_name(n) /\ Quiet
    \/ \E p \in Paths : with_spec_filepath(p) /\ Quiet
    \/ \E d \in DeriveNames : add_derive(d) /\ Quiet
    \/ \E ds \in DeriveArgs : with_derive(ds) /\ Quiet
    \/ \E f \in Flags : add_config(f) /\ Quiet
    \/ \E fl \in ConfigArgs : with_config(fl) /\ Quiet
    \/ Run

Spec == Init /\ [][Next]_vars

\* ------------------------------------------- builder, with the calls recorded
Log(op, arg) ==
    /\ Len(calls) < MaxCalls
    /\ calls' = Append(calls, [op |-> op, arg |-> arg])
    /\ UNCHANGED <<fs, pc, locals, examples_given>>

NextBuild ==
    \/ \E l \in Languages : with_language(l) /\ Log("with_language", l)
    \/ \E e \in BOOLEAN : with_examples(e) /\ Log("with_examples", e)
    \/ \E o \in OutputDirs : with_output_dir(o) /\ Log("with_output_dir", o)
    \/ \E n \in Names : with_name(n) /\ Log("with_name", n)
    \/ \E p \in Paths : with_spec_filepath(p) /\ Log("with_spec_filepath", p)
    \/ \E d \in DeriveNames : add_derive(d) /\ Log("add_derive", d)
    \/ \E ds \in DeriveArgs : with_derive(ds) /\ Log("with_derive", ds)
    \/ \E f \in Flags : add_config(f) /\ Log("add_config", f)
    \/ \E fl \in ConfigArgs : with_config(fl) /\ Log("with_config", fl)

SpecBuild == Init /\ [][NextBuild]_vars

\* ------------------------------------------------- read_spec called directly
InitRead ==
    /\ new /\ NotStarted
    /\ pc = "call"
    /\ examples_given = FALSE /\ calls = <<>>

ReadSpec ==
    /\ pc = "call"
    /\ \E p \in SeqsUpTo(Alphabet, MaxPathLen) :
         \E f \in FilesAt(p) :
            /\ spec_filepath' = p
            /\ fs' = f
            /\ LET r == read_spec(p, f)
               IN /\ result' = r.out
                  /\ trace' = r.stages
    /\ pc' = "returned"
    /\ UNCHANGED <<language, examples, output_dir, config, derive, name,
                   spec, dest, hir, cfg, extractCalls, backendCalls,
                   backendResult, examples_given, calls>>

NextRead == ReadSpec

SpecRead == InitRead /\ [][NextRead]_vars

\* ------------------------------------------------------------------ claims
KnownExtensions == {<<"yaml">>, <<"yml">>, <<"json">>}
YamlPath == <<"spec", ".", "yaml">>

UnknownExtension(p) == extension(p).some /\ extension(p).val \notin KnownExtensions

\* C1 (as stated): when the file opens and the extension is present but none of
\* yaml, yml, json, read_spec returns an ordinary Ok/Err result, the one the
\* same bytes give under a .yaml name.
C1_UnknownExtensionReadAsYaml ==
    (pc = "returned" /\ fs.opens /\ UnknownExtension(spec_filepath))
        => /\ result.kind \in {"Ok", "Err"}
           /\ result = read_spec(YamlPath, fs).out

\* C1 (amended): when the file opens and the extension is present but none of
\* yaml, yml, json, read_spec deserializes nothing and does not return: it
\* panics, with "Unknown file extension" (or "Extension isn't utf8" when the
\* extension is not valid UTF-8).
C1_UnknownExtensionPanics ==
    (pc = "returned" /\ fs.opens /\ UnknownExtension(spec_filepath))
        => /\ result = IF IsUtf8(extension(spec_filepath).val)
                       THEN Panic("Unknown file extension")
                       ELSE Panic("Extension isn't utf8")
           /\ trace = <<"open", "extension">>

C1_Witness ==
    /\ pc = "returned" /\ fs.opens /\ fs.bytes.text = "yaml"
    /\ spec_filepath = <<"spec", ".", "txt">>
    /\ result.kind = "Panic"

\* C8: for the same bytes, read_spec on a path without extension, and on a
\* path with the .yml extension, gives the outcome it gives on a .yaml path:
\* the same document, or an error in the same cases (the same error once the
\* file has opened).
C8_NoExtensionAndYmlLikeYaml ==
    (/\ pc = "returned"
     /\ \/ ~extension(spec_filepath).some
        \/ extension(spec_filepath) = Some(<<"yml">>))
        => /\ extension(YamlPath) = Some(<<"yaml">>)
           /\ LET y == read_spec(YamlPath, fs).out
              IN IF fs.opens THEN result = y
                 ELSE result.kind = "Err" /\ y.kind = "Err"

C8_Witness ==
    /\ pc = "returned" /\ spec_filepath = <<"spec">>
    /\ fs.opens /\ fs.bytes.text = "json"
    /\ result = Ok([openapi |-> "B"])

\* C2 (as stated): when the file cannot be opened, run returns an error whose
\* message contains the exact path, and neither the extractor nor a backend
\* is invoked.
C2_NotFoundNamesExactPath ==
    (pc # "build" /\ ~fs.opens)
        => /\ pc = "done"
           /\ result.kind = "Err"
           /\ Contains(result.err, spec_filepath)
           /\ extractCalls = <<>> /\ backendCalls = <<>>

ReadsAsYaml(p) == ~extension(p).some \/ extension(p).val \in {<<"yaml">>, <<"yml">>}
ReadsAsJson(p) == extension(p) = Some(<<"json">>)

\* C3: when the file opens but deserialization fails (YAML for .yaml, .yml and
\* no extension, JSON for .json), run returns the parse error and neither the
\* extractor nor a backend is invoked.
C3_ParseErrorStopsRun ==
    /\ (/\ pc # "build" /\ fs.opens /\ ReadsAsYaml(spec_filepath)
        /\ from_yaml(fs.bytes).kind = "Err")
          => /\ pc = "done" /\ result = Err("serde_yaml::Error")
             /\ extractCalls = <<>> /\ backendCalls = <<>>
    /\ (/\ pc # "build" /\ fs.opens /\ ReadsAsJson(spec_filepath)
        /\ from_json(fs.bytes).kind = "Err")
          => /\ pc = "done" /\ result = Err("serde_json::Error")
             /\ extractCalls = <<>> /\ backendCalls = <<>>

C3_Witness ==
    /\ pc = "done" /\ spec_filepath = <<"spec", ".", "json">>
    /\ fs.opens /\ fs.bytes.text = "yaml"
    /\ result = Err("serde_json::Error")

Stages == <<"open", "extension", "deserialize", "upgrade", "output_dir",
            "extract", "config", "dispatch">>

\* The stages run in the fixed order, the extractor and the backend are called
\* at most once, the backend only after read, upgrade and extraction succeeded,
\* and a finished run stopped at the stage whose outcome it reports.
FailFast ==
    /\ Len(trace) <= Len(Stages) /\ trace = SubSeq(Stages, 1, Len(trace))
    /\ Len(extractCalls) <= 1 /\ Len(backendCalls) <= 1
    /\ backendCalls # <<>> => spec.some /\ hir.some /\ trace = Stages
    /\ pc = "done" =>
         LET last == trace[Len(trace)]
         IN CASE last = "open" -> result = Err(not_found_message(spec_filepath))
              [] last = "extension" -> result.kind = "Panic"
              [] last = "deserialize" ->
                     result \in {Err("serde_yaml::Error"), Err("serde_json::Error")}
              [] last = "extract" ->
                     result = Err("ExtractionError") /\ backendCalls = <<>>
              [] last = "dispatch" ->
                     result = backendResult /\ result.kind \in {"Ok", "Err"}
              [] OTHER -> FALSE

\* C4 (as stated): the stages occur in the fixed order, the run stops at the
\* first failing stage and returns that stage's error, and the backend is
\* invoked at most once and only after read, upgrade and extraction succeeded.
C4_StopsAndReturnsStageError ==
    /\ FailFast
    /\ pc = "done" => result.kind \in {"Ok", "Err"}

\* C4 (amended): as stated, except that a run whose file opens under an
\* extension that is present but none of yaml, yml, json stops in the read
\* stage by panicking instead of returning an error; no later stage runs.
C4_StopsAtFirstFailingStage ==
    /\ FailFast
    /\ (pc = "done" /\ result.kind \notin {"Ok", "Err"})
         => /\ result = Panic("Unknown file extension")
            /\ fs.opens /\ UnknownExtension(spec_filepath)
            /\ extractCalls = <<>> /\ backendCalls = <<>>

C4_Witness ==
    /\ pc = "done" /\ trace = SubSeq(Stages, 1, 6)
    /\ result = Err("ExtractionError") /\ backendCalls = <<>>

\* C5 (as stated): the flags supplied by the caller reach the configuration
\* passed to the backend: its ormlite field is true exactly when the Ormlite
\* flag is among them.
C5_OrmliteFlagCaptured ==
    backendCalls # <<>>
        => (backendCalls[1].config.ormlite
              <=> \E i \in 1..Len(config) : config[i] = "Ormlite")

\* C6: the derive list of the configuration handed to the backend equals the
\* caller's derive list element for element.
C6_DerivesVerbatim ==
    backendCalls # <<>> => backendCalls[1].config.derives = derive

C6_Witness ==
    /\ backendCalls # <<>>
    /\ derive = <<"Clone", "Clone">>
    /\ backendCalls[1].config.derives = <<"Clone", "Clone">>

\* C7: when read, upgrade and extraction succeeded, a finished run made exactly
\* one call, to the backend of the requested language, and its result is that
\* backend's result, success or error, unchanged.
C7_ResultIsBackendResult ==
    (pc = "done" /\ hir.some)
        => /\ Len(backendCalls) = 1
           /\ backendCalls[1].backend = language
           /\ backendCalls[1].spec = hir.val
           /\ backendResult \in generate_rust_library(hir.val, cfg.val)
           /\ result = backendResult

C7_Witness ==
    /\ pc = "done" /\ hir.some
    /\ backendResult = Err("io::Error") /\ result = Err("io::Error")

\* C9: the destination passed to the backend is the caller's output directory
\* when one was given and "." otherwise; its example toggle is the caller's
\* value, which is true unless with_examples set it.
C9_DestAndExamples ==
    /\ ~examples_given => examples = TRUE
    /\ backendCalls # <<>>
         => /\ backendCalls[1].config.dest
                  = (IF output_dir.some THEN output_dir.val ELSE ".")
            /\ backendCalls[1].config.build_examples = examples

C9_Witness ==
    /\ backendCalls # <<>>
    /\ output_dir = Some("out") /\ backendCalls[1].config.dest = "out"
    /\ examples_given /\ ~backendCalls[1].config.build_examples

\* The argument of the last call of `op`, or `default` when there was none.
LastArg(op, default) ==
    LET at == {i \in 1..Len(calls) : calls[i].op = op}
    IN IF at = {} THEN default
       ELSE calls[CHOOSE i \in at : \A j \in at : j <= i].arg

\* The argument of the last `withOp` call (the empty list when there was
\* none), followed by the arguments of the later `addOp` calls, in call order.
ListAfter(withOp, addOp) ==
    LET at == {i \in 1..Len(calls) : calls[i].op = withOp}
        from == IF at = {} THEN 0 ELSE CHOOSE i \in at : \A j \in at : j <= i
        base == IF from = 0 THEN <<>> ELSE calls[from].arg
        adds == SelectSeq(SubSeq(calls, from + 1, Len(calls)),
                          LAMBDA c : c.op = addOp)
    IN base \o [i \in 1..Len(adds) |-> adds[i].arg]

\* C10: after any sequence of builder calls from Generate::new(), every field
\* holds what its own setter last gave it (its initial value when the setter
\* was never called), and the derive (flag) list is the argument of the last
\* with_derive (with_config) followed by the later add_derive (add_config)
\* arguments.
C10_BuilderFields ==
    /\ language = LastArg("with_language", "Rust")
    /\ examples = LastArg("with_examples", TRUE)
    /\ output_dir = (IF \E i \in 1..Len(calls) : calls[i].op = "with_output_dir"
                     THEN Some(LastArg("with_output_dir", ""))
                     ELSE None)
    /\ name = LastArg("with_name", "")
    /\ spec_filepath = LastArg("with_spec_filepath", <<>>)
    /\ derive = ListAfter("with_derive", "add_derive")
    /\ config = ListAfter("with_config", "add_config")

C10_Witness ==
    /\ Len(calls) = 3
    /\ calls[1] = [op |-> "add_derive", arg |-> "Clone"]
    /\ calls[2] = [op |-> "with_derive", arg |-> <<>>]
    /\ calls[3] = [op |-> "add_derive", arg |-> "Debug"]
    /\ derive = <<"Debug">>
====
